---- MODULE Spec2Model ----
(***************************************************************************)
(* Model of electro_shoot: the contact tracking of projectiles against    *)
(* the enemy pool (Projectile::tick driven by Game::tick), the exact      *)
(* shape predicates (Shape::is_colliding) and the sprite decomposition    *)
(* of Enemy::explode.                                                     *)
(*                                                                         *)
(* Numbers.  The program computes in f64.  The model computes on an       *)
(* integer lattice on which every operation the code performs is exact:   *)
(* lengths are integers, rotations are whole quarter turns (0..3), one    *)
(* unit of time is Enemy::SLOWDOWN_TIME (1/3 s) and a frame's dt is 0 or  *)
(* 1 unit.  Projectile speeds are multiples of 4, so that                 *)
(* speed * COLLISION_SPEED_MULTIPLIER (0.25) is an integer too.           *)
(***************************************************************************)
EXTENDS Integers, Sequences, FiniteSets, TLC

(***************************************************************************)
(* Vectors, rotations and isometries (nalgebra Vector2, UnitComplex,      *)
(* Isometry2) on the lattice.                                             *)
(***************************************************************************)
Abs(n) == IF n < 0 THEN -n ELSE n

Max(a, b) == IF a >= b THEN a ELSE b

Min(a, b) == IF a <= b THEN a ELSE b

VAdd(u, v) == <<u[1] + v[1], u[2] + v[2]>>

VSub(u, v) == <<u[1] - v[1], u[2] - v[2]>>

VScale(u, k) == <<u[1] * k, u[2] * k>>

VAbs(u) == <<Abs(u[1]), Abs(u[2])>>

MagnitudeSquared(u) == u[1] * u[1] + u[2] * u[2]

\* UnitComplex * vector, the rotation being q quarter turns
Rotate(q, v) ==
    CASE q % 4 = 0 -> v
      [] q % 4 = 1 -> <<-v[2], v[1]>>
      [] q % 4 = 2 -> <<-v[1], -v[2]>>
      [] q % 4 = 3 -> <<v[2], -v[1]>>

Isometry(t, q) == [translation |-> t, rotation |-> q % 4]

\* Isometry2::inverse
IsoInverse(i) ==
    Isometry(Rotate(4 - i.rotation, <<-i.translation[1], -i.translation[2]>>),
             4 - i.rotation)

\* Isometry2 * Isometry2
IsoMul(a, b) ==
    Isometry(VAdd(a.translation, Rotate(a.rotation, b.translation)),
             a.rotation + b.rotation)

\* Isometry2 * point
IsoApply(a, p) == VAdd(a.translation, Rotate(a.rotation, p))

(***************************************************************************)
(* shape.rs                                                                *)
(***************************************************************************)
Point == [kind |-> "Point"]

Circle(r) == [kind |-> "Circle", radius |-> r]

Rectangle(h) == [kind |-> "Rectangle", half_size |-> h]

circle_point(radius, offset) == MagnitudeSquared(offset) < radius * radius

\* circle_circle that counts two tangent circles as colliding
circle_circle_inclusive(radius_a, radius_b, offset) ==
    MagnitudeSquared(offset) <= (radius_a + radius_b) * (radius_a + radius_b)

circle_circle(radius_a, radius_b, offset) ==
    MagnitudeSquared(offset) < (radius_a + radius_b) * (radius_a + radius_b)

rectangle_point(half_size, offset) ==
    Abs(offset[1]) <= half_size[1] /\ Abs(offset[2]) <= half_size[2]

rectangle_circle(half_size, radius, offset0) ==
    LET offset == VAbs(offset0) IN
    IF offset[2] <= half_size[2] THEN offset[1] <= half_size[1] + radius
    ELSE IF offset[1] <= half_size[1] THEN offset[2] <= half_size[2] + radius
    ELSE circle_point(radius, VSub(offset, half_size))

bounding_box_of_rectangle(half_size, rotation) ==
    LET a == VAbs(Rotate(rotation, half_size))
        b == VAbs(Rotate(rotation, <<half_size[1], -half_size[2]>>))
    IN <<Max(a[1], b[1]), Max(a[2], b[2])>>

\* rectangle_rectangle_one_sided that leaves the extent of b out
rectangle_rectangle_one_sided_without_b(half_size_a, half_size_b0, offset0) ==
    LET offset == VAbs(offset0.translation)
    IN /\ offset[1] <= half_size_a[1]
       /\ offset[2] <= half_size_a[2]

rectangle_rectangle_one_sided(half_size_a, half_size_b0, offset0) ==
    LET half_size_b == bounding_box_of_rectangle(half_size_b0, offset0.rotation)
        offset == VAbs(offset0.translation)
    IN /\ offset[1] <= half_size_a[1] + half_size_b[1]
       /\ offset[2] <= half_size_a[2] + half_size_b[2]

rectangle_rectangle(half_size_a, half_size_b, offset) ==
    /\ rectangle_rectangle_one_sided(half_size_a, half_size_b, offset)
    /\ rectangle_rectangle_one_sided(half_size_b, half_size_a, IsoInverse(offset))

\* Shape::is_colliding that hands the offset to the rectangle tests without
\* inverting it when self is the point or the circle
ShapeIsCollidingWithoutInverse(self, other, offset) ==
    CASE self.kind = "Point" /\ other.kind = "Point" -> FALSE
      [] self.kind = "Point" /\ other.kind = "Circle" ->
            circle_point(other.radius, offset.translation)
      [] self.kind = "Circle" /\ other.kind = "Point" ->
            circle_point(self.radius, offset.translation)
      [] self.kind = "Circle" /\ other.kind = "Circle" ->
            circle_circle(self.radius, other.radius, offset.translation)
      [] self.kind = "Point" /\ other.kind = "Rectangle" ->
            rectangle_point(other.half_size, offset.translation)
      [] self.kind = "Rectangle" /\ other.kind = "Point" ->
            rectangle_point(self.half_size, offset.translation)
      [] self.kind = "Circle" /\ other.kind = "Rectangle" ->
            rectangle_circle(other.half_size, self.radius, offset.translation)
      [] self.kind = "Rectangle" /\ other.kind = "Circle" ->
            rectangle_circle(self.half_size, other.radius, offset.translation)
      [] self.kind = "Rectangle" /\ other.kind = "Rectangle" ->
            rectangle_rectangle(self.half_size, other.half_size, offset)

\* Shape::is_colliding; offset is the transformation from self to other
ShapeIsColliding(self, other, offset) ==
    CASE self.kind = "Point" /\ other.kind = "Point" -> FALSE
      [] self.kind = "Point" /\ other.kind = "Circle" ->
            circle_point(other.radius, offset.translation)
      [] self.kind = "Circle" /\ other.kind = "Point" ->
            circle_point(self.radius, offset.translation)
      [] self.kind = "Circle" /\ other.kind = "Circle" ->
            circle_circle(self.radius, other.radius, offset.translation)
      [] self.kind = "Point" /\ other.kind = "Rectangle" ->
            rectangle_point(other.half_size, IsoInverse(offset).translation)
      [] self.kind = "Rectangle" /\ other.kind = "Point" ->
            rectangle_point(self.half_size, offset.translation)
      [] self.kind = "Circle" /\ other.kind = "Rectangle" ->
            rectangle_circle(other.half_size, self.radius, IsoInverse(offset).translation)
      [] self.kind = "Rectangle" /\ other.kind = "Circle" ->
            rectangle_circle(self.half_size, other.radius, offset.translation)
      [] self.kind = "Rectangle" /\ other.kind = "Rectangle" ->
            rectangle_rectangle(self.half_size, other.half_size, offset)

(***************************************************************************)
(* object.rs                                                               *)
(***************************************************************************)
\* Transform::tick that applies the velocity without scaling it by dt
TransformTickIgnoresDt(position, linear_velocity, angular_velocity, dt) ==
    Isometry(VAdd(position.translation, linear_velocity),
             position.rotation + angular_velocity)

\* Transform::tick: translate by linear_velocity * dt, then turn about the
\* body's own center by angular_velocity * dt
TransformTick(position, linear_velocity, angular_velocity, dt) ==
    Isometry(VAdd(position.translation, VScale(linear_velocity, dt)),
             position.rotation + angular_velocity * dt)

\* Object::offset_to
OffsetTo(self_position, other_position) ==
    IsoMul(IsoInverse(self_position), other_position)

\* Object::is_colliding
ObjectIsColliding(a, b) ==
    ShapeIsColliding(a.shape, b.shape, OffsetTo(a.position, b.position))

(***************************************************************************)
(* Bounds of the model and the input sets the actions draw from.           *)
(***************************************************************************)
\* elapsed time (sum of the frames' dt) after which no further frame starts
MaxTime == 2

\* the same for the long run of one projectile against one enemy
MaxTimeLong == 8
MaxTimeFire == 6

\* projectiles and enemies placed in the pools before the first frame
MaxSetupProjectiles == 2

MaxSetupEnemies == 2

\* a frame's dt, in units of Enemy::SLOWDOWN_TIME
DtSet == {0, 1}

\* world positions of the mouse (never the turret's own position)
MouseSet == {<<1, 0>>, <<0, 1>>}

\* utils::bounds_of_camera: the half size of the playfield rectangle
CameraHalfSize == <<12, 12>>

(***************************************************************************)
(* Catalogs.  PROJECTILE_KINDS and ENEMY_KINDS with their damage,          *)
(* piercing flag, cooldown (in units of 1/3 s) and maximum health as in    *)
(* the source, and with lattice sizes and speeds.                          *)
(***************************************************************************)
PROJECTILE_KINDS ==
    << [name |-> "Classic", size |-> <<4, 2>>, damage |-> 4, piercing |-> TRUE,
        speed |-> 4, particle_distance |-> 4, hit_particle_radius |-> 2,
        shoot_cooldown |-> 3],
       [name |-> "Rapid", size |-> <<2, 2>>, damage |-> 2, piercing |-> FALSE,
        speed |-> 8, particle_distance |-> 12, hit_particle_radius |-> 1,
        shoot_cooldown |-> 1],
       [name |-> "Slow", size |-> <<2, 2>>, damage |-> 8, piercing |-> TRUE,
        speed |-> 4, particle_distance |-> 3, hit_particle_radius |-> 3,
        shoot_cooldown |-> 5] >>

ENEMY_KINDS ==
    << [name |-> "Red Circle", shape |-> Circle(2), speed |-> 2,
        angular_velocity |-> 0, maximum_health |-> 4],
       [name |-> "Red Square", shape |-> Rectangle(<<2, 2>>), speed |-> 2,
        angular_velocity |-> 3, maximum_health |-> 8],
       [name |-> "Purple Square", shape |-> Rectangle(<<3, 3>>), speed |-> 2,
        angular_velocity |-> 1, maximum_health |-> 12] >>

\* ProjectileProperties::distance_to_front, distance_to_back
distance_to_front(properties) == properties.size[1] \div 2

distance_to_back(properties) == properties.size[1] \div 2

\* Projectile::COLLISION_SPEED_MULTIPLIER is 1/4: the divisor
COLLISION_SPEED_DIVISOR == 4

\* main.rs: the subticks the setup code passes in ProjectileProperties
MainSubticks == 2

\* Projectile::PARTICLE_JITTER
PARTICLE_JITTER == 3

\* Turret::BARREL_LENGTH
BARREL_LENGTH == 2

\* the time counters saturate here: 1 stands for "at least SLOWDOWN_TIME",
\* f64::INFINITY included
TimeCap == 1

\* Particle lifetimes: 2/3 s for trail and hit particles, 1 s for fragments
GLITTER_LIFETIME == 2

FRAGMENT_LIFETIME == 3

\* Turret::RECHARGE_ANIMATION_LENGTH (0.5 s) lies between 1 and 2 units
RechargeCap == 2

(***************************************************************************)
(* State.                                                                  *)
(*   pc, frame_dt, cursor  where Game::tick stands: "idle" between frames, *)
(*       then "projectiles" (cursor: the pool index of the projectile that *)
(*       retain visits next), "enemies", "particles"                       *)
(*   turret       Turret: time_since_shoot, time_since_recharged,          *)
(*                projectile_kind, input (PlayerInput)                     *)
(*   projectiles  the projectile pool in iteration order                   *)
(*   enemies      the enemy pool: EnemyKey -> Enemy                        *)
(*   next_key     the next fresh EnemyKey (a slot map never reuses a key)  *)
(*   particles    the particle pool in insertion order                     *)
(*   explosions   EnemyKey -> the number of calls of Enemy::explode on it  *)
(*   last         the record of the latest call of Projectile::tick, <<>>  *)
(*                outside the projectile phase                             *)
(*   clock        the sum of the dt of the frames so far                   *)
(*   started      whether Game::tick has run                               *)
(*   shot_log     ghost: at, the value of clock at every shot of the       *)
(*                turret so far, and pressed, whether shoot_down() was     *)
(*                sampled true since the last shot                         *)
(*   scenario     the input sets of the run (fixed by Init): the kinds and *)
(*                numbers of the projectiles and enemies main places, the  *)
(*                values of shoot_down(), the horizon                      *)
(* Left out, read by draw only: Enemy.brightness and                       *)
(* brightness_update_time, the turret's rotation between shots, the        *)
(* particles' transform, texture and color.                                *)
(***************************************************************************)
VARIABLES pc, frame_dt, cursor, turret, projectiles, enemies, next_key,
          particles, explosions, last, clock, started, scenario,
          shot_log

game_vars == <<pc, frame_dt, cursor, turret, projectiles, enemies, next_key,
               particles, explosions, last, clock, started, scenario,
               shot_log>>

(***************************************************************************)
(* State of one call of Enemy::explode.                                    *)
(*   explode_pc        where the call stands: "seed" and "stamp" (the      *)
(*                     while loop that groups the pixels), "fill" (the two *)
(*                     flood fills), "pack" (the while loop that packs the *)
(*                     bounding boxes), "done", "panicked"; "none" when no *)
(*                     call is modelled                                    *)
(*   texture           [size, opaque]: pixel_size() and the pixels of the  *)
(*                     image whose opacity is not 0                        *)
(*   num_valid_pixels, group_ids, next_group_id   the locals of that name; *)
(*                     group_ids maps a pixel to 0 for None                *)
(*   seed              [position, iterations]: the seed pixel of the group *)
(*                     being stamped and the rectangles still to draw      *)
(*   group_keys        the local of that name, 0 for None                  *)
(*   bounding_boxes    the slot map of that name in key order, entries     *)
(*                     [key, bounding_box, group_size]                     *)
(*   atlases           per texture created: texture_bounding_boxes and the *)
(*                     pixels copied into image                            *)
(*   fragments         the particles inserted: [atlas, start, size]        *)
(***************************************************************************)
VARIABLES explode_pc, texture, num_valid_pixels, group_ids, next_group_id,
          seed, group_keys, bounding_boxes, atlases, fragments

explode_vars == <<explode_pc, texture, num_valid_pixels, group_ids,
                  next_group_id, seed, group_keys, bounding_boxes, atlases,
                  fragments>>

(***************************************************************************)
(* A call of a function that reads no game state, followed on its own:     *)
(*   call   [op |-> "none"] before any call, otherwise the arguments and   *)
(*          the result of the latest call: Shape::is_colliding, Enemy::hit *)
(*          or the placing of one stamping rectangle along one axis        *)
(***************************************************************************)
VARIABLES call

vars == <<game_vars, explode_vars, call>>

RECURSIVE SeqOfSet(_)
\* the keys of S in ascending order: the order a pool is iterated in
SeqOfSet(S) ==
    IF S = {} THEN <<>>
    ELSE LET m == CHOOSE x \in S : \A y \in S : x <= y
         IN <<m>> \o SeqOfSet(S \ {m})

Contains(seq, k) == \E i \in DOMAIN seq : seq[i] = k

Repeat(x, n) == [i \in 1..n |-> x]

RECURSIVE Flatten(_)
Flatten(seqs) ==
    IF seqs = <<>> THEN <<>> ELSE Head(seqs) \o Flatten(Tail(seqs))

CapTime(t) == Min(t, TimeCap)

(***************************************************************************)
(* enemy.rs                                                                *)
(***************************************************************************)
\* Enemy::new
EnemyNew(position, kind) ==
    [ shape            |-> kind.shape,
      position         |-> position,
      linear_velocity  |-> <<0, 0>>,
      angular_velocity |-> kind.angular_velocity,
      direction        |-> position.rotation,
      speed            |-> kind.speed,
      health           |-> kind.maximum_health,
      time_since_hit   |-> TimeCap ]

\* a subtraction that wraps, in a word of 31 bits (the widest the model
\* checker's integers hold)
WrappingSub(a, b) == IF a >= b THEN a - b ELSE 2147483647 - (b - a) + 1

\* u32::saturating_sub
SaturatingSub(a, b) == IF a >= b THEN a - b ELSE 0

\* Enemy::hit
EnemyHit(enemy, damage) ==
    [enemy EXCEPT !.health = SaturatingSub(enemy.health, damage),
                  !.time_since_hit = 0]

\* Enemy::should_delete
EnemyShouldDelete(enemy) == enemy.health = 0

\* Enemy::speed_multiplier: min(time_since_hit / SLOWDOWN_TIME, 1), the
\* counter being 0 or at least SLOWDOWN_TIME on the lattice
EnemySpeedMultiplier(enemy) == Min(enemy.time_since_hit, 1)

\* Enemy::tick
EnemyTick(enemy, dt) ==
    LET speed == enemy.speed * EnemySpeedMultiplier(enemy)
        velocity == Rotate(enemy.direction, <<speed, 0>>)
        moved == TransformTick(enemy.position, velocity, enemy.angular_velocity, dt)
    IN [enemy EXCEPT !.linear_velocity = velocity,
                     !.position = moved,
                     !.time_since_hit = CapTime(enemy.time_since_hit + dt)]

(***************************************************************************)
(* particle.rs                                                             *)
(***************************************************************************)
Particle(source, lifetime) ==
    [source |-> source, time_since_creation |-> 0, maximum_lifetime |-> lifetime]

\* Particle::tick
ParticleTick(particle, dt) ==
    [particle EXCEPT !.time_since_creation =
        Min(particle.time_since_creation + dt, particle.maximum_lifetime)]

\* Particle::should_delete
ParticleShouldDelete(particle) ==
    particle.time_since_creation >= particle.maximum_lifetime

(***************************************************************************)
(* projectile.rs                                                           *)
(***************************************************************************)
\* Projectile::new; jitter is the draw gen_range(0, PARTICLE_JITTER)
ProjectileNew(position, kind, jitter) ==
    [ shape                   |-> Rectangle(<<kind.size[1] \div 2, kind.size[2] \div 2>>),
      position                |-> position,
      linear_velocity         |-> <<0, 0>>,
      direction               |-> position.rotation,
      properties              |-> kind,
      enemies_colliding       |-> <<>>,
      enemies_intersecting    |-> <<>>,
      enemies_hit             |-> <<>>,
      time_since_collision    |-> TimeCap,
      time_since_exit         |-> TimeCap,
      distance_since_particle |-> kind.particle_distance - jitter ]

\* Projectile::should_delete with the piercing flag read the wrong way round
ShouldDeleteFlagInverted(p) ==
    p.properties.piercing /\ p.enemies_hit # <<>>

\* Projectile::should_delete
ProjectileShouldDelete(p) ==
    ~(p.properties.piercing \/ p.enemies_hit = <<>>)

\* the speed of a tick: properties.speed * speed_multiplier
TickSpeed(p) ==
    IF p.enemies_colliding = <<>> THEN p.properties.speed
    ELSE p.properties.speed \div COLLISION_SPEED_DIVISOR

\* "Motion" and the distance bookkeeping of "Particles"
TickMoved(p, dt) ==
    LET velocity == Rotate(p.direction, <<TickSpeed(p), 0>>)
    IN [p EXCEPT !.linear_velocity = velocity,
                 !.position = TransformTick(p.position, velocity, 0, dt),
                 !.distance_since_particle =
                     (p.distance_since_particle + TickSpeed(p) * dt)
                         % p.properties.particle_distance]

\* the number of trail particles the while loop inserts
TrailCount(p, dt) ==
    (p.distance_since_particle + TickSpeed(p) * dt) \div p.properties.particle_distance

\* the first conjunct of the collision loop's condition
NotInContact(p, key) ==
    ~(Contains(p.enemies_intersecting, key) \/ Contains(p.enemies_colliding, key))

\* the enemies the collision loop strikes; p has moved
Struck(p, pool) ==
    {key \in DOMAIN pool : NotInContact(p, key) /\ ObjectIsColliding(p, pool[key])}

\* the pool after the collision loop has struck the enemies of struck
PoolAfterStrikes(pool, struck, damage) ==
    [key \in DOMAIN pool |->
        IF key \in struck THEN EnemyHit(pool[key], damage) ELSE pool[key]]

\* the struck enemies on which the loop calls Enemy::explode; pool is the
\* pool after the strikes
Exploding(pool, struck) ==
    {key \in struck : EnemyShouldDelete(pool[key])}

\* the offset of the test that prunes enemies_colliding without the
\* translation in front of it
WidenedOffsetUnmoved(p, enemy) == OffsetTo(p.position, enemy.position)

\* the offset of the test that prunes enemies_colliding
WidenedOffset(p, enemy) ==
    IsoMul(Isometry(<<-(distance_to_front(p.properties)
                        + distance_to_back(p.properties)), 0>>, 0),
           OffsetTo(p.position, enemy.position))

\* the closure of enemies_colliding.retain
KeepColliding(p, pool, key) ==
    /\ key \in DOMAIN pool
    /\ ~EnemyShouldDelete(pool[key])
    /\ ShapeIsColliding(p.shape, pool[key].shape, WidenedOffset(p, pool[key]))

\* the closure of enemies_intersecting.retain without its overlap test
KeepIntersectingAlive(p, pool, key) ==
    /\ key \in DOMAIN pool
    /\ ~EnemyShouldDelete(pool[key])

\* the closure of enemies_intersecting.retain
KeepIntersecting(p, pool, key) ==
    /\ key \in DOMAIN pool
    /\ ~EnemyShouldDelete(pool[key])
    /\ ObjectIsColliding(p, pool[key])

\* "Collisions" with enemies_hit.push(key) in the branch that calls
\* Enemy::explode, so that only a killing strike is recorded
TickCollidedHitOnKill(p, pool, struck, dt) ==
    LET alive == SeqOfSet(struck \ Exploding(pool, struck))
        pushed == [p EXCEPT !.enemies_colliding = @ \o alive,
                            !.enemies_intersecting = @ \o alive,
                            !.enemies_hit = @ \o SeqOfSet(Exploding(pool, struck)),
                            !.time_since_collision =
                                IF struck = {} THEN CapTime(@ + dt) ELSE 0]
        KeepC(key) == KeepColliding(pushed, pool, key)
        KeepI(key) == KeepIntersecting(pushed, pool, key)
        colliding == SelectSeq(pushed.enemies_colliding, KeepC)
    IN [pushed EXCEPT !.enemies_colliding = colliding,
                      !.enemies_intersecting = SelectSeq(@, KeepI),
                      !.time_since_exit =
                          IF colliding = <<>> THEN CapTime(@ + dt) ELSE 0]

\* "Collisions": the projectile after the loop and the two retains; p has
\* moved, struck are the enemies the loop strikes, pool is the pool after
\* the strikes
TickCollided(p, pool, struck, dt) ==
    LET alive == SeqOfSet(struck \ Exploding(pool, struck))
        pushed == [p EXCEPT !.enemies_colliding = @ \o alive,
                            !.enemies_intersecting = @ \o alive,
                            !.enemies_hit = @ \o SeqOfSet(struck),
                            !.time_since_collision =
                                IF struck = {} THEN CapTime(@ + dt) ELSE 0]
        KeepC(key) == KeepColliding(pushed, pool, key)
        KeepI(key) == KeepIntersecting(pushed, pool, key)
        colliding == SelectSeq(pushed.enemies_colliding, KeepC)
    IN [pushed EXCEPT !.enemies_colliding = colliding,
                      !.enemies_intersecting = SelectSeq(@, KeepI),
                      !.time_since_exit =
                          IF colliding = <<>> THEN CapTime(@ + dt) ELSE 0]

\* the particles a tick inserts: the trail, then for each struck enemy its
\* fragments (when it explodes) and the hit particles; p is the projectile
\* before the tick.  The fragments of one call of Enemy::explode, which
\* are inserted together and live equally long, are one entry of the pool.
TickParticles(p, dt, struck, exploding) ==
    LET keys == SeqOfSet(struck)
    IN Repeat(Particle("trail", GLITTER_LIFETIME), TrailCount(p, dt))
       \o Flatten([i \in DOMAIN keys |->
              (IF keys[i] \in exploding
               THEN <<Particle("fragments", FRAGMENT_LIFETIME)>>
               ELSE <<>>)
              \o Repeat(Particle("hit", GLITTER_LIFETIME),
                        2 * p.properties.hit_particle_radius)])

\* Projectile::tick without the return of its first statement
ProjectileTickWithoutReturn(p, pool, dt) ==
    LET moved == TickMoved(p, dt)
        struck == Struck(moved, pool)
        after_pool == PoolAfterStrikes(pool, struck, p.properties.damage)
    IN [ projectile |-> TickCollided(moved, after_pool, struck, dt),
         enemies    |-> after_pool,
         particles  |-> TickParticles(p, dt, struck, Exploding(after_pool, struck)) ]

\* Projectile::tick, one call: the projectile and the enemy pool it leaves
\* and the particles it inserts
ProjectileTick(p, pool, dt) ==
    IF ProjectileShouldDelete(p)
    THEN [projectile |-> p, enemies |-> pool, particles |-> <<>>]
    ELSE LET moved == TickMoved(p, dt)
             struck == Struck(moved, pool)
             after_pool == PoolAfterStrikes(pool, struck, p.properties.damage)
         IN [ projectile |-> TickCollided(moved, after_pool, struck, dt),
              enemies    |-> after_pool,
              particles  |-> TickParticles(p, dt, struck,
                                           Exploding(after_pool, struck)) ]

(***************************************************************************)
(* turret.rs                                                               *)
(***************************************************************************)
\* Turret::default
TurretDefault ==
    [ time_since_shoot     |-> 0,
      time_since_recharged |-> 0,
      projectile_kind      |-> PROJECTILE_KINDS[1],
      input                |-> [shoot |-> FALSE, time_since_press |-> 0] ]

\* PlayerInput::tick; down is shoot_down().  BUFFER_TIME is 1/6 s, half a
\* unit of time
PlayerInputTick(input, down, dt) ==
    IF down THEN [shoot |-> TRUE, time_since_press |-> 0]
    ELSE LET since == CapTime(input.time_since_press + dt)
         IN [shoot |-> IF 2 * since > 1 THEN FALSE ELSE input.shoot,
             time_since_press |-> since]

\* Turret::can_shoot one unit of time before the cooldown has run out
CanShootEarly(t) == t.time_since_shoot + 1 >= t.projectile_kind.shoot_cooldown

\* Turret::can_shoot
CanShoot(t) == t.time_since_shoot >= t.projectile_kind.shoot_cooldown

\* UnitComplex::new_normalize of an offset on an axis, in quarter turns
DirectionOf(offset) ==
    CASE offset[1] > 0 /\ offset[2] = 0 -> 0
      [] offset[1] = 0 /\ offset[2] > 0 -> 1
      [] offset[1] < 0 /\ offset[2] = 0 -> 2
      [] offset[1] = 0 /\ offset[2] < 0 -> 3

\* Turret::tick up to the decision to shoot: time_since_shoot advanced
\* (saturating at the cooldown, beyond which can_shoot reads the same)
TurretAdvanced(t, dt) ==
    [t EXCEPT !.time_since_shoot =
        Min(t.time_since_shoot + dt, t.projectile_kind.shoot_cooldown)]

\* whether Turret::tick shoots
TurretShoots(t, dt) ==
    t.input.shoot /\ CanShoot(TurretAdvanced(t, dt))

\* Turret::tick on the turret, Turret::shoot included
TurretTick(t, dt) ==
    LET advanced == TurretAdvanced(t, dt)
        shot == IF TurretShoots(t, dt)
                THEN [advanced EXCEPT !.time_since_shoot = 0, !.input.shoot = FALSE]
                ELSE advanced
    IN [shot EXCEPT !.time_since_recharged =
            IF CanShoot(shot) THEN Min(@ + dt, RechargeCap) ELSE 0]

\* Turret::shoot: the pose of the new projectile; the turret stands at the
\* origin and has just turned to the mouse
ShootPosition(t, mouse_position) ==
    LET aim == Isometry(<<0, 0>>, DirectionOf(mouse_position))
    IN Isometry(IsoApply(aim, <<BARREL_LENGTH + distance_to_front(t.projectile_kind), 0>>),
                aim.rotation)

(***************************************************************************)
(* game.rs and the setup of main.rs                                        *)
(***************************************************************************)
\* the poses main places projectiles and enemies at
SetupProjectilePositions == {Isometry(<<0, 0>>, 0)}

SetupEnemyPositions == {Isometry(<<4, 0>>, 0), Isometry(<<8, 0>>, 0)}

\* the inputs of Spec: any two projectiles against any two enemies of the
\* first two kinds, a circle and a square, the fire button never down
ScenarioContact ==
    [ projectile_kinds |-> DOMAIN PROJECTILE_KINDS,
      enemy_kinds      |-> {1, 2},
      max_projectiles  |-> MaxSetupProjectiles,
      max_enemies      |-> MaxSetupEnemies,
      shoot_down       |-> {FALSE},
      max_time         |-> MaxTime ]

\* the inputs of SpecLong: one piercing "Slow" projectile against one
\* "Purple Square", which survives a strike, over a long horizon
ScenarioLong ==
    [ projectile_kinds |-> {3},
      enemy_kinds      |-> {3},
      max_projectiles  |-> 1,
      max_enemies      |-> 1,
      shoot_down       |-> {FALSE},
      max_time         |-> MaxTimeLong ]

\* the inputs of SpecFire: the fire button down or up at every sampling, one
\* "Classic" projectile and one "Red Circle" placed before the first frame,
\* long enough for the turret to recharge and fire
ScenarioFire ==
    [ projectile_kinds |-> {1},
      enemy_kinds      |-> {1},
      max_projectiles  |-> 1,
      max_enemies      |-> 1,
      shoot_down       |-> BOOLEAN,
      max_time         |-> MaxTimeFire ]

\* the closure of projectiles.retain without its test of should_delete()
ProjectileKeptInBoundsOnly(p) ==
    ShapeIsColliding(Rectangle(CameraHalfSize), p.shape, p.position)

\* the closure of projectiles.retain, after the tick
ProjectileKept(p) ==
    /\ ~ProjectileShouldDelete(p)
    /\ ShapeIsColliding(Rectangle(CameraHalfSize), p.shape, p.position)

RemoveAt(seq, i) == SubSeq(seq, 1, i - 1) \o SubSeq(seq, i + 1, Len(seq))

InitGame ==
    /\ pc = "idle"
    /\ frame_dt = 0
    /\ cursor = 1
    /\ turret = TurretDefault
    /\ projectiles = <<>>
    /\ enemies = <<>>
    /\ next_key = 1
    /\ particles = <<>>
    /\ explosions = <<>>
    /\ last = <<>>
    /\ clock = 0
    /\ started = FALSE
    /\ shot_log = [at |-> <<>>, pressed |-> FALSE]
    /\ call = [op |-> "none"]

\* no call of Enemy::explode is followed pixel by pixel
NoExplode ==
    /\ explode_pc = "none"
    /\ texture = [size |-> <<0, 0>>, opaque |-> {}]
    /\ num_valid_pixels = 0
    /\ group_ids = <<>>
    /\ next_group_id = 1
    /\ seed = [position |-> <<0, 0>>, iterations |-> 0]
    /\ group_keys = <<>>
    /\ bounding_boxes = <<>>
    /\ atlases = <<>>
    /\ fragments = <<>>

Init == InitGame /\ scenario = ScenarioContact /\ NoExplode

InitLong == InitGame /\ scenario = ScenarioLong /\ NoExplode

\* main: game.projectiles.insert(Projectile::new(..)) before the loop
SetupProjectile ==
    /\ pc = "idle" /\ ~started
    /\ Len(projectiles) < scenario.max_projectiles
    /\ \E position \in SetupProjectilePositions, k \in scenario.projectile_kinds :
          projectiles' = Append(projectiles, ProjectileNew(position, PROJECTILE_KINDS[k], 0))
    /\ UNCHANGED <<pc, frame_dt, cursor, turret, enemies, next_key, particles,
                   explosions, last, clock, started, scenario, shot_log,
                   explode_vars, call>>

\* main: game.enemies.insert(..) before the loop
SetupEnemy ==
    /\ pc = "idle" /\ ~started
    /\ next_key <= scenario.max_enemies
    /\ \E position \in SetupEnemyPositions, k \in scenario.enemy_kinds :
          enemies' = (next_key :> EnemyNew(position, ENEMY_KINDS[k])) @@ enemies
    /\ explosions' = (next_key :> 0) @@ explosions
    /\ next_key' = next_key + 1
    /\ UNCHANGED <<pc, frame_dt, cursor, turret, projectiles, particles, last,
                   clock, started, scenario, shot_log,
                   explode_vars, call>>

\* Game::tick_input
TickInput ==
    /\ pc = "idle"
    /\ \E down \in scenario.shoot_down, dt \in DtSet :
          /\ turret' = [turret EXCEPT !.input = PlayerInputTick(@, down, dt)]
          /\ shot_log' = [shot_log EXCEPT !.pressed = @ \/ down]
    /\ UNCHANGED <<pc, frame_dt, cursor, projectiles, enemies, next_key,
                   particles, explosions, last, clock, started, scenario,
                   explode_vars, call>>

\* Game::tick, first statement: self.turret.tick(..)
GameTickTurret ==
    /\ pc = "idle"
    /\ \E dt \in DtSet, mouse \in MouseSet, jitter \in 0..(PARTICLE_JITTER - 1) :
          /\ clock + dt <= scenario.max_time
          /\ clock' = clock + dt
          /\ frame_dt' = dt
          /\ turret' = TurretTick(turret, dt)
          /\ projectiles' =
                IF TurretShoots(turret, dt)
                THEN Append(projectiles,
                            ProjectileNew(ShootPosition(turret, mouse),
                                          turret.projectile_kind, jitter))
                ELSE projectiles
          /\ shot_log' =
                IF TurretShoots(turret, dt)
                THEN [at |-> Append(shot_log.at, clock + dt), pressed |-> FALSE]
                ELSE shot_log
    /\ pc' = "projectiles"
    /\ cursor' = 1
    /\ started' = TRUE
    /\ UNCHANGED <<enemies, next_key, particles, explosions, last, scenario,
                   explode_vars, call>>

\* Game::tick, projectiles.retain: the closure on the next projectile
GameTickProjectile ==
    /\ pc = "projectiles"
    /\ cursor <= Len(projectiles)
    /\ \E p \in {projectiles[cursor]} :
       \E skipped \in {ProjectileShouldDelete(p)} :
       \E moved \in {TickMoved(p, frame_dt)} :
       \E struck \in {IF skipped THEN {} ELSE Struck(moved, enemies)} :
       \E pool \in {PoolAfterStrikes(enemies, struck, p.properties.damage)} :
       \E exploding \in {Exploding(pool, struck)} :
       \E after \in {IF skipped THEN p ELSE TickCollided(moved, pool, struck, frame_dt)} :
       \E kept \in {ProjectileKept(after)} :
          /\ particles' = particles \o
                (IF skipped THEN <<>>
                 ELSE TickParticles(p, frame_dt, struck, exploding))
          /\ enemies' = pool
          /\ explosions' = [key \in DOMAIN explosions |->
                               IF key \in exploding THEN explosions[key] + 1
                               ELSE explosions[key]]
          /\ last' = << [ dt |-> frame_dt,
                          skipped |-> skipped,
                          before |-> p,
                          after |-> after,
                          pool_before |-> enemies,
                          struck |-> struck,
                          kept |-> kept ] >>
          /\ IF kept
             THEN /\ projectiles' = [projectiles EXCEPT ![cursor] = after]
                  /\ cursor' = cursor + 1
             ELSE /\ projectiles' = RemoveAt(projectiles, cursor)
                  /\ cursor' = cursor
    /\ UNCHANGED <<pc, frame_dt, turret, next_key, clock, started, scenario, shot_log,
                   explode_vars, call>>

\* enemies.retain run without waiting for projectiles.retain to finish
GameTickEnemiesEarly ==
    /\ pc = "projectiles"
    /\ LET ticked == [key \in DOMAIN enemies |-> EnemyTick(enemies[key], frame_dt)]
           kept == {key \in DOMAIN enemies : ~EnemyShouldDelete(ticked[key])}
       IN enemies' = [key \in kept |-> ticked[key]]
    /\ pc' = "particles"
    /\ last' = <<>>
    /\ UNCHANGED <<frame_dt, cursor, turret, projectiles, next_key, particles,
                   explosions, clock, started, scenario, shot_log,
                   explode_vars, call>>

\* Game::tick, enemies.retain
GameTickEnemies ==
    /\ pc = "projectiles"
    /\ cursor > Len(projectiles)
    /\ LET ticked == [key \in DOMAIN enemies |-> EnemyTick(enemies[key], frame_dt)]
           kept == {key \in DOMAIN enemies : ~EnemyShouldDelete(ticked[key])}
       IN enemies' = [key \in kept |-> ticked[key]]
    /\ pc' = "particles"
    /\ last' = <<>>
    /\ UNCHANGED <<frame_dt, cursor, turret, projectiles, next_key, particles,
                   explosions, clock, started, scenario, shot_log,
                   explode_vars, call>>

\* Game::tick, particles.retain
GameTickParticles ==
    /\ pc = "particles"
    /\ LET ticked == [i \in DOMAIN particles |-> ParticleTick(particles[i], frame_dt)]
           Kept(particle) == ~ParticleShouldDelete(particle)
       IN particles' = SelectSeq(ticked, Kept)
    /\ pc' = "idle"
    /\ UNCHANGED <<frame_dt, cursor, turret, projectiles, enemies, next_key,
                   explosions, last, clock, started, scenario, shot_log,
                   explode_vars, call>>

Next ==
    \/ SetupProjectile
    \/ SetupEnemy
    \/ TickInput
    \/ GameTickTurret
    \/ GameTickProjectile
    \/ GameTickEnemies
    \/ GameTickParticles

Spec == Init /\ [][Next]_vars

SpecLong == InitLong /\ [][Next]_vars

InitFire == InitGame /\ scenario = ScenarioFire /\ NoExplode

SpecFire == InitFire /\ [][Next]_vars

(***************************************************************************)
(* enemy.rs: Enemy::explode, one step per loop iteration.  A pixel is      *)
(* <<x, y>>, counted from 0.                                               *)
(***************************************************************************)
\* the width of the textures, and the group ids the while loop may hand out
MaxW == 5
MaxGroups == 2

\* RECTANGLE_WIDTH and RECTANGLE_HEIGHT: the ranges 4..8, end excluded
RECTANGLE_WIDTH == 4..7
RECTANGLE_HEIGHT == 4..7

\* macroquad::rand::gen_range(low, high) on integers: low + (high - low) * r
\* truncated, r in [0, 1)
GenRange(low, high) == IF high > low THEN low..(high - 1) ELSE {low}

Pixels(size) == (0..(size[1] - 1)) \X (0..(size[2] - 1))

\* the rows the textures are made of: transparent, opaque, the left pixel,
\* the left pixel and the one two further
RowPatterns(w) == { {}, 0..(w - 1), {0}, {0, 2} }

\* the textures: MaxW wide, as high as the lowest rectangle
Textures ==
    LET w == MaxW
        h == CHOOSE r \in RECTANGLE_HEIGHT : \A k \in RECTANGLE_HEIGHT : r <= k
    IN { [ size |-> <<w, h>>,
           opaque |-> {px \in Pixels(<<w, h>>) : px[1] \in rows[px[2]]} ] :
         rows \in [0..(h - 1) -> RowPatterns(w)] }

\* BoundingBox and the pixels inside it
BoundingBox(min, max) == [min |-> min, max |-> max]

BoxPixels(b) == (b.min[1]..b.max[1]) \X (b.min[2]..b.max[2])

\* BoundingBox::intersects with < where the code has <=
BoundingBoxIntersectsStrict(self, other) ==
    /\ self.min[1] < other.max[1]
    /\ self.min[2] < other.max[2]
    /\ other.min[1] < self.max[1]
    /\ other.min[2] < self.max[2]

\* BoundingBox::intersects with other.min.x where the first comparison has
\* other.max.x
BoundingBoxIntersectsMinForMax(self, other) ==
    /\ self.min[1] <= other.min[1]
    /\ self.min[2] <= other.max[2]
    /\ other.min[1] <= self.max[1]
    /\ other.min[2] <= self.max[2]

\* BoundingBox::intersects
BoundingBoxIntersects(self, other) ==
    /\ self.min[1] <= other.max[1]
    /\ self.min[2] <= other.max[2]
    /\ other.min[1] <= self.max[1]
    /\ other.min[2] <= self.max[2]

\* BoundingBox::size
BoundingBoxSize(b) == <<b.max[1] - b.min[1] + 1, b.max[2] - b.min[2] + 1>>

\* BoundingBox::expand_to_fit: the smallest box that holds b and index
ExpandToFit(b, index) ==
    BoundingBox(<<Min(b.min[1], index[1]), Min(b.min[2], index[2])>>,
                <<Max(b.max[1], index[1]), Max(b.max[2], index[2])>>)

\* the opaque pixels without a group
Ungrouped == {px \in texture.opaque : group_ids[px] = 0}

\* the index of a pixel in get_image_data() and in group_ids.iter()
RasterIndex(px) == px[1] + px[2] * texture.size[1]

\* take_while(..).count(): the pixels passed before count reaches 0, which
\* it does at the count-th ungrouped opaque pixel
SeedIndex(count) ==
    LET hits == {px \in Ungrouped :
                    Cardinality({q \in Ungrouped : RasterIndex(q) <= RasterIndex(px)}) = count}
    IN IF hits = {} THEN texture.size[1] * texture.size[2]
       ELSE RasterIndex(CHOOSE px \in hits : TRUE)

\* the two clamps of rectangle_offset, on one axis
ClampedOffset(position, rectangle_size, rectangle_offset, size) ==
    LET clamped == IF rectangle_offset > position THEN position ELSE rectangle_offset
    IN IF position - clamped + rectangle_size > size THEN rectangle_size ELSE clamped

\* the <<rectangle_size, rectangle_offset>> one axis can end up with
Rectangles(position, size, range) ==
    UNION { { <<r, ClampedOffset(position, r, o, size)>> : o \in GenRange(0, r) } :
            r \in range }

\* the <<min, max>> of the bounding box on one axis, <<>> where
\* position - rectangle_offset is below 0
Intervals(position, size, range) ==
    { IF r[2] > position THEN <<>>
      ELSE <<position - r[2], position - r[2] + r[1] - 1>> :
      r \in Rectangles(position, size, range) }

\* the texture whose pixels explode is about to group
InitExplode ==
    /\ InitGame
    /\ scenario = ScenarioContact
    /\ texture \in Textures
    /\ num_valid_pixels = Cardinality(texture.opaque)
    /\ group_ids = [px \in Pixels(texture.size) |-> 0]
    /\ next_group_id = 1
    /\ seed = [position |-> <<0, 0>>, iterations |-> 0]
    /\ group_keys = [px \in Pixels(texture.size) |-> 0]
    /\ bounding_boxes = <<>>
    /\ atlases = <<>>
    /\ fragments = <<>>
    /\ explode_pc = IF Cardinality(texture.opaque) > 0 THEN "seed" ELSE "fill"

\* while num_valid_pixels > 0: the draw of count, the seed pixel, the draw
\* of the number of rectangles
ExplodeSeed ==
    /\ explode_pc = "seed"
    /\ next_group_id <= MaxGroups
    /\ \E count \in GenRange(1, num_valid_pixels), iterations \in GenRange(1, 3) :
          \E index \in {SeedIndex(count)} :
              seed' = [ position |-> <<index % texture.size[1], index \div texture.size[1]>>,
                        iterations |-> iterations ]
    /\ explode_pc' = "stamp"
    /\ UNCHANGED <<texture, num_valid_pixels, group_ids, next_group_id, group_keys,
                   bounding_boxes, atlases, fragments, game_vars, call>>

\* one rectangle of the for loop.  position - rectangle_offset on usize
\* panics where overflow checks are on and wraps where they are off, which
\* leaves the ranges of x or y empty
ExplodeStamp ==
    /\ explode_pc = "stamp"
    /\ \E x \in Intervals(seed.position[1], texture.size[1], RECTANGLE_WIDTH),
          y \in Intervals(seed.position[2], texture.size[2], RECTANGLE_HEIGHT) :
       \E underflow \in {x = <<>> \/ y = <<>>} :
       \E overflow_checks \in IF underflow THEN BOOLEAN ELSE {FALSE} :
       \E stamped \in {IF underflow THEN {}
                       ELSE {px \in BoxPixels(BoundingBox(<<x[1], y[1]>>, <<x[2], y[2]>>)) :
                                group_ids[px] = 0 /\ px \in texture.opaque}} :
       \E left \in {num_valid_pixels - Cardinality(stamped)} :
          IF overflow_checks
          THEN /\ explode_pc' = "panicked"
               /\ UNCHANGED <<num_valid_pixels, group_ids, next_group_id, seed>>
          ELSE /\ group_ids' = [px \in DOMAIN group_ids |->
                                   IF px \in stamped THEN next_group_id ELSE group_ids[px]]
               /\ num_valid_pixels' = left
               /\ seed' = [seed EXCEPT !.iterations = @ - 1]
               /\ IF seed.iterations > 1
                  THEN UNCHANGED <<explode_pc, next_group_id>>
                  ELSE /\ next_group_id' = next_group_id + 1
                       /\ explode_pc' = IF left > 0 THEN "seed" ELSE "fill"
    /\ UNCHANGED <<texture, group_keys, bounding_boxes, atlases, fragments, game_vars, call>>

\* the pushes of the fill without the two wrapping_sub ones
NeighboursForward(index) ==
    { <<index[1] + 1, index[2]>>, <<index[1], index[2] + 1>> }
        \cap Pixels(texture.size)

\* the pixels the fill pushes next to index
Neighbours(index) ==
    { <<index[1] - 1, index[2]>>, <<index[1], index[2] - 1>>,
      <<index[1] + 1, index[2]>>, <<index[1], index[2] + 1>> }
        \cap Pixels(texture.size)

RECURSIVE FloodFill(_, _)
\* the pixels a fill marks: those of group_id joined to the start through
\* neighbours of group_id
FloodFill(group_id, marked) ==
    LET more == {q \in UNION {Neighbours(index) : index \in marked} :
                    group_ids[q] = group_id} \ marked
    IN IF more = {} THEN marked ELSE FloodFill(group_id, marked \cup more)

\* the place of a pixel in "for x in 0..size.x { for y in 0..size.y"
ScanIndex(px) == px[1] * texture.size[2] + px[2]

RECURSIVE ScanComponents(_)
\* the fills of the scan in the order it starts them, each as its pixels
ScanComponents(pending) ==
    IF pending = {} THEN <<>>
    ELSE LET start == CHOOSE px \in pending :
                          \A q \in pending : ScanIndex(px) <= ScanIndex(q)
             filled == FloodFill(group_ids[start], {start})
         IN <<[start |-> start, pixels |-> filled]>> \o ScanComponents(pending \ filled)

RECURSIVE FitAll(_, _)
\* expand_to_fit over the pixels of a fill
FitAll(b, pixels) ==
    IF pixels = {} THEN b
    ELSE LET index == CHOOSE px \in pixels : TRUE
         IN FitAll(ExpandToFit(b, index), pixels \ {index})

\* the two flood fills: group_sizes (indecies holds the start twice), then
\* group_keys and bounding_boxes; a key is the rank of its insertion
ExplodeFill ==
    /\ explode_pc = "fill"
    /\ \E components \in {ScanComponents({px \in DOMAIN group_ids : group_ids[px] # 0})} :
          /\ group_keys' = [px \in DOMAIN group_keys |->
                IF \E key \in DOMAIN components : px \in components[key].pixels
                THEN CHOOSE key \in DOMAIN components : px \in components[key].pixels
                ELSE 0]
          /\ bounding_boxes' = [key \in DOMAIN components |->
                [ key |-> key,
                  bounding_box |-> FitAll(BoundingBox(components[key].start,
                                                      components[key].start),
                                          components[key].pixels),
                  group_size |-> Cardinality(components[key].pixels) + 1 ]]
          /\ explode_pc' = IF components = <<>> THEN "done" ELSE "pack"
    /\ UNCHANGED <<texture, num_valid_pixels, group_ids, next_group_id, seed,
                   atlases, fragments, game_vars, call>>

\* the closure of bounding_boxes.retain with its two branches exchanged: it
\* moves the entries that intersect into texture_bounding_boxes
RetainKeepsInverted(entry, texture_bounding_boxes) ==
    \A i \in DOMAIN texture_bounding_boxes :
        ~BoundingBoxIntersects(entry.bounding_box, texture_bounding_boxes[i].bounding_box)

\* the closure of bounding_boxes.retain: TRUE leaves the entry in
\* bounding_boxes, FALSE moves it into texture_bounding_boxes
RetainKeeps(entry, texture_bounding_boxes) ==
    \E i \in DOMAIN texture_bounding_boxes :
        BoundingBoxIntersects(entry.bounding_box, texture_bounding_boxes[i].bounding_box)

RECURSIVE Retain(_, _, _)
\* bounding_boxes.retain over the entries in key order
Retain(entries, kept, texture_bounding_boxes) ==
    IF entries = <<>>
    THEN [kept |-> kept, texture_bounding_boxes |-> texture_bounding_boxes]
    ELSE IF RetainKeeps(Head(entries), texture_bounding_boxes)
         THEN Retain(Tail(entries), Append(kept, Head(entries)), texture_bounding_boxes)
         ELSE Retain(Tail(entries), kept,
                     Append(texture_bounding_boxes,
                            [ key |-> Head(entries).key,
                              bounding_box |-> Head(entries).bounding_box ]))

\* the pixels copied into image
AtlasImage(texture_bounding_boxes) ==
    {px \in Pixels(texture.size) :
        \E i \in DOMAIN texture_bounding_boxes :
            /\ px \in BoxPixels(texture_bounding_boxes[i].bounding_box)
            /\ group_keys[px] = texture_bounding_boxes[i].key}

\* one iteration of "while let Some(key) = bounding_boxes.keys().next()"
ExplodePack ==
    /\ explode_pc = "pack"
    /\ bounding_boxes # <<>>
    /\ \E packed \in {Retain(Tail(bounding_boxes), <<>>,
                             << [ key |-> Head(bounding_boxes).key,
                                  bounding_box |-> Head(bounding_boxes).bounding_box ] >>)} :
          /\ bounding_boxes' = packed.kept
          /\ atlases' = Append(atlases,
                [ texture_bounding_boxes |-> packed.texture_bounding_boxes,
                  image |-> AtlasImage(packed.texture_bounding_boxes) ])
          /\ fragments' = fragments \o
                [i \in DOMAIN packed.texture_bounding_boxes |->
                    [ atlas |-> Len(atlases) + 1,
                      start |-> packed.texture_bounding_boxes[i].bounding_box.min,
                      size |-> BoundingBoxSize(packed.texture_bounding_boxes[i].bounding_box) ]]
          /\ explode_pc' = IF packed.kept = <<>> THEN "done" ELSE "pack"
    /\ UNCHANGED <<texture, num_valid_pixels, group_ids, next_group_id, seed,
                   group_keys, game_vars, call>>

NextExplode ==
    \/ ExplodeSeed
    \/ ExplodeStamp
    \/ ExplodeFill
    \/ ExplodePack

SpecExplode == InitExplode /\ [][NextExplode]_vars

(***************************************************************************)
(* Calls of Shape::is_colliding and Enemy::hit, and the placing of one     *)
(* stamping rectangle of Enemy::explode, on arguments of their own, drawn  *)
(* from bounded sets.  Lengths of the comparison at 0.6, 1.1 and 1.3 are   *)
(* in tenths.                                                              *)
(***************************************************************************)
MaxImage == 8
MaxSweep == 6
MaxSweepRadius == 5
MaxRadius == 3
MaxHalfSize == 2
MaxOffset == 5
MaxDamage == 9
MaxTicks == 4

ExampleHalfSize == <<6, 6>>
ExampleNear == <<11, 0>>
ExampleFar == <<13, 0>>

\* a damage far above every health: the largest integer the model checker
\* holds, u32::MAX being beyond it
HugeDamage == 2147483647

Shapes ==
    {Point} \cup {Circle(r) : r \in 1..MaxRadius}
            \cup {Rectangle(<<x, y>>) : x \in 1..MaxHalfSize, y \in 1..MaxHalfSize}
            \cup {Rectangle(ExampleHalfSize)}

Offsets ==
    {Isometry(<<x, y>>, q) : x \in (-MaxOffset)..MaxOffset,
                             y \in (-MaxOffset)..MaxOffset, q \in 0..3}
        \cup {Isometry(ExampleNear, 0), Isometry(ExampleFar, 0)}

Damages == (0..MaxDamage) \cup {HugeDamage}

\* shape.is_colliding(&other, offset), one call
CallIsColliding ==
    /\ call.op = "none"
    /\ \E self \in Shapes, other \in Shapes, offset \in Offsets :
          call' = [op |-> "is_colliding", self |-> self, other |-> other,
                   offset |-> offset,
                   result |-> ShapeIsColliding(self, other, offset)]
    /\ UNCHANGED <<game_vars, explode_vars>>

\* enemy.hit(damage), on a new enemy or on the one the latest hit left
CallHit ==
    /\ call.op \in {"none", "hit"}
    /\ \E kind \in DOMAIN ENEMY_KINDS, damage \in Damages :
          \E enemy \in {IF call.op = "hit" THEN call.after
                                          ELSE EnemyNew(Isometry(<<0, 0>>, 0), ENEMY_KINDS[kind])} :
             call' = [op |-> "hit", before |-> enemy, damage |-> damage,
                      after |-> EnemyHit(enemy, damage)]
    /\ UNCHANGED <<game_vars, explode_vars>>

\* Enemy::explode, one pass of the for loop up to bounding_box, along one
\* axis of an image size pixels long: the rectangle's size and offset are
\* drawn, the offset goes through both clamps
CallStamp ==
    /\ call.op = "none"
    /\ \E size \in 1..MaxImage, rectangle_size \in RECTANGLE_WIDTH \cup RECTANGLE_HEIGHT :
       \E position \in 0..(size - 1), rectangle_offset \in GenRange(0, rectangle_size) :
          call' = [op |-> "stamp", size |-> size, position |-> position,
                   rectangle_size |-> rectangle_size,
                   rectangle_offset |->
                       ClampedOffset(position, rectangle_size, rectangle_offset, size)]
    /\ UNCHANGED <<game_vars, explode_vars>>

\* the centres a circle is placed at around one rectangle
SweepOffsets == ((-MaxSweep)..MaxSweep) \X ((-MaxSweep)..MaxSweep)

\* rectangle.is_colliding(&circle, offset) with the circle's centre at each
\* of SweepOffsets in turn, the answers kept side by side
CallSweep ==
    /\ call.op = "none"
    /\ \E rectangle \in {shape \in Shapes : shape.kind = "Rectangle"},
          radius \in 1..MaxSweepRadius :
          call' = [op |-> "sweep", half_size |-> rectangle.half_size, radius |-> radius,
                   results |-> [at \in SweepOffsets |->
                       ShapeIsColliding(rectangle, Circle(radius), Isometry(at, 0))]]
    /\ UNCHANGED <<game_vars, explode_vars>>

\* the pools a projectile is ticked against: no enemy, or one new enemy in
\* its path
TickPools ==
    {<<>>} \cup {<<EnemyNew(position, ENEMY_KINDS[kind])>> :
                    position \in SetupEnemyPositions, kind \in DOMAIN ENEMY_KINDS}

\* projectile.tick(&mut enemies, &mut particles, dt), on a new projectile
\* and a pool of at most one enemy or on what the latest tick left, with no
\* projectiles.retain between the calls
CallTick ==
    /\ call.op \in {"none", "tick"}
    /\ call.op = "tick" => call.ticks < MaxTicks
    /\ \E dt \in DtSet, kind \in DOMAIN PROJECTILE_KINDS, pool \in TickPools,
          position \in SetupProjectilePositions :
       \E before \in {IF call.op = "tick" THEN call.after
                       ELSE ProjectileNew(position, PROJECTILE_KINDS[kind], 0)} :
       \E pool_before \in {IF call.op = "tick" THEN call.pool_after ELSE pool} :
       \E result \in {ProjectileTick(before, pool_before, dt)} :
          call' = [op |-> "tick", dt |-> dt,
                   before |-> before, pool_before |-> pool_before,
                   after |-> result.projectile, pool_after |-> result.enemies,
                   particles |-> result.particles,
                   ticks |-> IF call.op = "tick" THEN call.ticks + 1 ELSE 1]
    /\ UNCHANGED <<game_vars, explode_vars>>

NextPure == CallIsColliding \/ CallHit \/ CallStamp \/ CallSweep \/ CallTick

InitPure == InitGame /\ scenario = ScenarioContact /\ NoExplode

SpecPure == InitPure /\ [][NextPure]_vars

(***************************************************************************)
(* Claims                                                                  *)
(***************************************************************************)
NoDuplicates(seq) == \A i, j \in DOMAIN seq : seq[i] = seq[j] => i = j

\* the projectiles of the pool and the one the latest tick returned
AllProjectiles ==
    {projectiles[i] : i \in DOMAIN projectiles} \cup {last[i].after : i \in DOMAIN last}

\* C1: each enemy is damaged by a given projectile at most once: no enemy
\* id occurs twice in a projectile's enemies_hit (an id is pushed there by
\* each strike, in the block that calls Enemy::hit).
C1_HitAtMostOnce == \A p \in AllProjectiles : NoDuplicates(p.enemies_hit)

\* the ticks on record that ran past the early return
Ticks == {last[i] : i \in {j \in DOMAIN last : ~last[j].skipped}}

\* the enemies of the pool a tick was given that overlap the exact hitbox
\* where the tick left the projectile
Overlapped(tick) ==
    {key \in DOMAIN tick.pool_before :
        ObjectIsColliding(tick.after, tick.pool_before[key])}

\* C2: Enemy::explode is called on an enemy exactly once, in the strike
\* that brings its health to 0 (an enemy leaves the pool only dead), and
\* never again, whatever the number of projectiles and frames.
C2_ExplodeExactlyOnce ==
    \A key \in DOMAIN explosions :
        explosions[key] =
            IF key \in DOMAIN enemies /\ enemies[key].health > 0 THEN 0 ELSE 1

\* C3: no projectile strikes an enemy whose health is already 0, and no
\* dead enemy is in the pool when the next projectile is processed.
C3_NoStrikeOnDead ==
    /\ \A tick \in Ticks : \A key \in tick.struck :
          tick.pool_before[key].health > 0
    /\ (pc = "projectiles" /\ cursor <= Len(projectiles)) =>
          \A key \in DOMAIN enemies : enemies[key].health > 0

\* C4: when a non-piercing projectile has been ticked and overlaps an enemy
\* whose health its damage covers, should_delete() is true and the enemy is
\* dead, and it is out of the pool once the frame's enemies.retain has run.
C4_OneShotKill ==
    /\ \A tick \in Ticks : \A key \in Overlapped(tick) :
          (/\ ~tick.before.properties.piercing
           /\ tick.before.properties.damage >= tick.pool_before[key].health)
          => /\ ProjectileShouldDelete(tick.after)
             /\ ~tick.kept
             /\ EnemyShouldDelete(enemies[key])
             /\ explosions[key] >= 1
    /\ pc \in {"particles", "idle"} =>
          \A key \in DOMAIN explosions :
              explosions[key] >= 1 => key \notin DOMAIN enemies

\* C4: a non-piercing projectile has just killed a live enemy it overlaps
C4_Witness ==
    \E tick \in Ticks : \E key \in Overlapped(tick) :
        /\ ~tick.before.properties.piercing
        /\ tick.pool_before[key].health > 0
        /\ tick.before.properties.damage >= tick.pool_before[key].health
        /\ ProjectileShouldDelete(tick.after)

\* C4: the frame of such a kill has pruned the enemy pool
C4_WitnessPruned ==
    /\ pc = "particles"
    /\ \E key \in DOMAIN explosions : explosions[key] >= 1 /\ key \notin DOMAIN enemies

IsSubsequenceOf(a, b) ==
    \E keep \in SUBSET DOMAIN b :
        LET Kept(i) == i \in keep
            kept == SelectSeq([i \in DOMAIN b |-> i], Kept)
        IN a = [i \in DOMAIN kept |-> b[kept[i]]]

\* C7 as claimed: tick(0.0) is a no-op: position, linear velocity, the
\* three collections and every enemy's health are the same before and after.
C7_TickZeroNoOp ==
    \A tick \in Ticks : tick.dt = 0 =>
        /\ tick.after.position = tick.before.position
        /\ tick.after.linear_velocity = tick.before.linear_velocity
        /\ tick.after.enemies_colliding = tick.before.enemies_colliding
        /\ tick.after.enemies_intersecting = tick.before.enemies_intersecting
        /\ tick.after.enemies_hit = tick.before.enemies_hit
        /\ \A key \in DOMAIN tick.pool_before :
              enemies[key].health = tick.pool_before[key].health

\* C7 as amended: tick(0.0) leaves the position where it was; when no enemy
\* outside colliding and intersecting overlaps the hitbox, enemies_hit and
\* every enemy's health are unchanged and colliding and intersecting lose
\* ids at most.
C7_TickZeroKeepsPosition ==
    \A tick \in Ticks : tick.dt = 0 =>
        /\ tick.after.position = tick.before.position
        /\ (\A key \in Overlapped(tick) : ~NotInContact(tick.before, key)) =>
              /\ tick.after.enemies_hit = tick.before.enemies_hit
              /\ \A key \in DOMAIN tick.pool_before :
                    enemies[key].health = tick.pool_before[key].health
              /\ IsSubsequenceOf(tick.after.enemies_colliding,
                                 tick.before.enemies_colliding)
              /\ IsSubsequenceOf(tick.after.enemies_intersecting,
                                 tick.before.enemies_intersecting)

\* C7: a tick(0.0) of a projectile that has moved before and is in contact
\* with an enemy, none overlapping it from outside its collections
C7_Witness ==
    \E tick \in Ticks :
        /\ tick.dt = 0
        /\ tick.before.position.translation # <<0, 0>>
        /\ tick.before.enemies_intersecting # <<>>
        /\ \A key \in Overlapped(tick) : ~NotInContact(tick.before, key)

\* the projectile of a tick after the first k of MainSubticks equal
\* sub-steps of its motion, where that position is on the lattice
SubStepOnLattice(tick, k) ==
    \A c \in 1..2 : (tick.after.linear_velocity[c] * tick.dt * k) % MainSubticks = 0

SubStepPosition(tick, k) ==
    [tick.before EXCEPT !.position.translation =
        [c \in 1..2 |-> @[c] + (tick.after.linear_velocity[c] * tick.dt * k) \div MainSubticks]]

\* the enemies the first sub-step's collision test would strike
StruckAtFirstSubStep(tick) ==
    {key \in DOMAIN tick.pool_before :
        /\ NotInContact(tick.before, key)
        /\ ObjectIsColliding(SubStepPosition(tick, 1), tick.pool_before[key])}

\* C8: a tick integrates and collision-tests in MainSubticks equal
\* sub-steps: an enemy overlapped at the end of the first sub-step is
\* struck, and a non-piercing projectile that registers a hit there stays
\* at that position.
C8_SubStepsTested ==
    \A tick \in Ticks : SubStepOnLattice(tick, 1) =>
        /\ StruckAtFirstSubStep(tick) \subseteq tick.struck
        /\ (~tick.before.properties.piercing /\ StruckAtFirstSubStep(tick) # {}) =>
              tick.after.position = SubStepPosition(tick, 1).position

\* C9: should_delete() is true exactly of a non-piercing projectile whose
\* enemies_hit is not empty, for every projectile of the pool and every
\* projectile a tick was given or returned; what projectiles.retain keeps
\* is never such a projectile.
C9_ShouldDeleteIff ==
    /\ \A p \in AllProjectiles \cup {last[i].before : i \in DOMAIN last} :
          ProjectileShouldDelete(p) <=>
              (~p.properties.piercing /\ Len(p.enemies_hit) > 0)
    /\ \A i \in DOMAIN last :
          last[i].kept => (last[i].after.properties.piercing
                              \/ Len(last[i].after.enemies_hit) = 0)
    /\ pc # "projectiles" =>
          \A i \in DOMAIN projectiles :
              projectiles[i].properties.piercing \/ Len(projectiles[i].enemies_hit) = 0

\* C9: a non-piercing projectile has just hit, a piercing one has hit before
C9_Witness ==
    /\ \E tick \in Ticks :
          ~tick.before.properties.piercing /\ Len(tick.after.enemies_hit) > 0
    /\ \E i \in DOMAIN projectiles :
          projectiles[i].properties.piercing /\ Len(projectiles[i].enemies_hit) > 0

\* C10: a piercing projectile that has hit nothing yet and overlaps N live
\* enemies strikes them all in that tick: each has the damage applied once
\* and enemies_hit holds N ids afterwards.
C10_PiercingStrikesAll ==
    \A tick \in Ticks :
        (tick.before.properties.piercing /\ tick.before.enemies_hit = <<>>) =>
            LET live == {key \in Overlapped(tick) : tick.pool_before[key].health > 0}
            IN /\ live \subseteq tick.struck
               /\ \A key \in live :
                     enemies[key].health =
                         SaturatingSub(tick.pool_before[key].health,
                                       tick.before.properties.damage)
               /\ NoDuplicates(tick.after.enemies_hit)
               /\ Len(tick.after.enemies_hit) = Cardinality(live)

\* the sub-rectangle of its texture a fragment draws
FragmentBox(f) ==
    BoundingBox(f.start, <<f.start[1] + f.size[1] - 1, f.start[2] + f.size[2] - 1>>)

\* the pixels a fragment carries: those of its sub-rectangle that its
\* texture holds
Carried(f) == BoxPixels(FragmentBox(f)) \cap atlases[f.atlas].image

AtlasesHolding(px) == {a \in DOMAIN atlases : px \in atlases[a].image}

AtlasBoxes(a) ==
    {atlases[a].texture_bounding_boxes[i].bounding_box :
        i \in DOMAIN atlases[a].texture_bounding_boxes}

SharePixel(b, c) == BoxPixels(b) \cap BoxPixels(c) # {}

\* C6 as claimed: no bounding box of one atlas intersects a bounding box
\* of a different atlas.
C6_NoCrossAtlasIntersection ==
    \A a, b \in DOMAIN atlases : a # b =>
        \A c \in AtlasBoxes(a), d \in AtlasBoxes(b) : ~SharePixel(c, d)

\* C6 as amended: no two bounding boxes of the same atlas intersect; a
\* box that intersects one of the atlas is left for a later atlas, so every
\* box of a later atlas intersects a box of each earlier atlas.
C6_IntersectingBoxesApart ==
    /\ \A a \in DOMAIN atlases :
          \A i, j \in DOMAIN atlases[a].texture_bounding_boxes : i # j =>
              ~SharePixel(atlases[a].texture_bounding_boxes[i].bounding_box,
                          atlases[a].texture_bounding_boxes[j].bounding_box)
    /\ \A a, b \in DOMAIN atlases : a < b =>
          \A d \in AtlasBoxes(b) : \E c \in AtlasBoxes(a) : SharePixel(c, d)

\* C6: the packing is done with an atlas of several boxes and a later atlas
C6_Witness ==
    /\ explode_pc = "done"
    /\ Len(atlases) >= 2
    /\ \E a \in DOMAIN atlases : Len(atlases[a].texture_bounding_boxes) >= 2

\* C11: Shape::is_colliding is symmetric: is_colliding(A, B, offset) equals
\* is_colliding(B, A, offset.inverse()) for every pair of shapes (Point,
\* Circle, Rectangle) and every offset.
C11_Symmetric ==
    call.op = "is_colliding" =>
        call.result = ShapeIsColliding(call.other, call.self, IsoInverse(call.offset))

\* a circle found overlapping a rectangle that lies a quarter turn to it,
\* off both of its axes
C11_Witness ==
    /\ call.op = "is_colliding"
    /\ call.self.kind = "Circle" /\ call.other.kind = "Rectangle"
    /\ call.other.half_size[1] # call.other.half_size[2]
    /\ call.offset.rotation = 1
    /\ call.offset.translation[1] # 0 /\ call.offset.translation[2] # 0
    /\ call.result

\* the half extents, along the axes of a frame, of a rectangle that lies
\* rotation quarter turns to that frame
Extents(half_size, rotation) ==
    IF rotation % 2 = 0 THEN half_size ELSE <<half_size[2], half_size[1]>>

\* how far the point at, seen from the rectangle's centre and along its axes,
\* lies outside the rectangle on each axis (0 inside and on the edge)
Outside(half_size, at) ==
    <<Max(Abs(at[1]) - half_size[1], 0), Max(Abs(at[2]) - half_size[2], 0)>>

\* the position of a point or circle in the frame of the rectangle of a call
InRectangleFrame(self, offset) ==
    IF self.kind = "Rectangle" THEN offset.translation
    ELSE IsoInverse(offset).translation

\* the two shapes have inner points in common (for a point: it lies inside
\* the other shape, off its boundary), by plane geometry
StrictlyOverlapping(self, other, offset) ==
    LET kinds == {self.kind, other.kind}
        rectangle == IF self.kind = "Rectangle" THEN self ELSE other
        round == IF self.kind = "Rectangle" THEN other ELSE self
        at == InRectangleFrame(self, offset)
        extents == Extents(other.half_size, offset.rotation)
    IN CASE kinds = {"Point"} -> FALSE
         [] kinds = {"Point", "Circle"} ->
               \E circle \in {self, other} :
                  /\ circle.kind = "Circle"
                  /\ MagnitudeSquared(offset.translation) < circle.radius * circle.radius
         [] kinds = {"Circle"} ->
               MagnitudeSquared(offset.translation)
                  < (self.radius + other.radius) * (self.radius + other.radius)
         [] kinds = {"Point", "Rectangle"} ->
               /\ Abs(at[1]) < rectangle.half_size[1]
               /\ Abs(at[2]) < rectangle.half_size[2]
         [] kinds = {"Circle", "Rectangle"} ->
               MagnitudeSquared(Outside(rectangle.half_size, at))
                  < round.radius * round.radius
         [] kinds = {"Rectangle"} ->
               /\ Abs(offset.translation[1]) < self.half_size[1] + extents[1]
               /\ Abs(offset.translation[2]) < self.half_size[2] + extents[2]

\* C12: for every supported pair of shapes is_colliding returns true only
\* when the shapes strictly overlap; when they merely touch (a point exactly
\* on a rectangle's edge, two rectangles sharing an edge) it returns false.
C12_TouchingIsNotColliding ==
    (call.op = "is_colliding" /\ call.result) =>
        StrictlyOverlapping(call.self, call.other, call.offset)

\* the whole part of the square root of n; a length whose square is n is
\* below a whole number k exactly when this is
FloorSqrt(n) == CHOOSE d \in 0..n : d * d <= n /\ n < (d + 1) * (d + 1)

CircleCircleCall ==
    /\ call.op = "is_colliding"
    /\ call.self.kind = "Circle" /\ call.other.kind = "Circle"

\* C13: two circles collide if and only if the distance between their
\* centres is strictly less than the sum of their radii; at exact tangency
\* (distance equal to the sum) the result is false.
C13_CircleCircleStrict ==
    CircleCircleCall =>
        LET distance_squared == MagnitudeSquared(call.offset.translation)
            sum == call.self.radius + call.other.radius
        IN /\ call.result = (FloorSqrt(distance_squared) < sum)
           /\ distance_squared = sum * sum => ~call.result

\* two tangent circles, neither centre on an axis of the other, found apart
C13_Witness ==
    /\ CircleCircleCall
    /\ MagnitudeSquared(call.offset.translation)
          = (call.self.radius + call.other.radius) * (call.self.radius + call.other.radius)
    /\ call.offset.translation[1] # 0 /\ call.offset.translation[2] # 0
    /\ ~call.result

RectangleRectangleCall ==
    /\ call.op = "is_colliding"
    /\ call.self.kind = "Rectangle" /\ call.other.kind = "Rectangle"

\* the call of the comparison: two squares of half size 0.6, not rotated
ExampleCall(translation) ==
    /\ RectangleRectangleCall
    /\ call.self.half_size = ExampleHalfSize /\ call.other.half_size = ExampleHalfSize
    /\ call.offset = Isometry(translation, 0)

\* the extent comparison in the frame of a: on each axis the centre of b is
\* no further than the half size of a plus the extent of b along that axis
ExtentsPass(half_size_a, half_size_b, offset) ==
    LET extents == Extents(half_size_b, offset.rotation)
    IN /\ Abs(offset.translation[1]) <= half_size_a[1] + extents[1]
       /\ Abs(offset.translation[2]) <= half_size_a[2] + extents[2]

\* C14: two rectangles of half size (0.6, 0.6) at rotation 0 collide at
\* offset (1.1, 0) and do not collide at offset (1.3, 0); in general a
\* collision of two rectangles is reported only if the extent comparison
\* passes in both directions.
C14_RectangleRectangle ==
    /\ ExampleCall(ExampleNear) => call.result
    /\ ExampleCall(ExampleFar) => ~call.result
    /\ (RectangleRectangleCall /\ call.result) =>
          /\ ExtentsPass(call.self.half_size, call.other.half_size, call.offset)
          /\ ExtentsPass(call.other.half_size, call.self.half_size,
                         IsoInverse(call.offset))

\* the two squares found colliding at (1.1, 0)
C14_Witness == ExampleCall(ExampleNear) /\ call.result

\* C15: Enemy::hit subtracts with saturation: for every health and damage
\* the new health is max(health - damage, 0); it never wraps around, and
\* the health never increases under any sequence of hits.
C15_HitSaturates ==
    call.op = "hit" =>
        /\ call.after.health = Max(call.before.health - call.damage, 0)
        /\ call.after.health >= 0
        /\ call.after.health <= call.before.health

\* a later hit of a sequence whose damage exceeds the health that is left
C15_Witness ==
    /\ call.op = "hit"
    /\ call.before.time_since_hit = 0
    /\ call.before.health > 0
    /\ call.damage > call.before.health
    /\ call.after.health = 0

\* a step ticks or removes an enemy: an enemy of the pool is gone or, its
\* health as it was, has changed
EnemyTickedOrRemoved ==
    \E key \in DOMAIN enemies :
       \/ key \notin DOMAIN enemies'
       \/ /\ key \in DOMAIN enemies'
          /\ enemies'[key].health = enemies[key].health
          /\ enemies'[key] # enemies[key]

\* a step ticks or removes a particle: the pool is not the old one with
\* particles added
ParticleTickedOrRemoved ==
    \/ Len(particles') < Len(particles)
    \/ SubSeq(particles', 1, Len(particles)) # particles

\* a step in which the turret fires
TurretFires == started' /\ Len(projectiles') > Len(projectiles)

AllProjectilesProcessed == pc = "projectiles" /\ cursor > Len(projectiles)

\* the steps of a frame come in the order of Game::tick
InFrameOrder ==
    /\ pc' # pc =>
          <<pc, pc'>> \in { <<"idle", "projectiles">>, <<"projectiles", "particles">>,
                            <<"particles", "idle">> }
    /\ TurretFires => pc = "idle" /\ pc' = "projectiles" /\ cursor' = 1
    /\ (pc = "projectiles" /\ pc' = "projectiles" /\ last' # last) =>
          /\ cursor <= Len(projectiles)
          /\ last'[1].before = projectiles[cursor]
          /\ \A i \in 1..(cursor - 1) : projectiles'[i] = projectiles[i]
    /\ EnemyTickedOrRemoved => AllProjectilesProcessed /\ pc' = "particles"
    /\ ParticleTickedOrRemoved => pc = "particles" /\ pc' = "idle"

\* once projectiles.retain is through, every projectile of the pool has been
\* ticked: its velocity, zero when it is created, has been assigned
AllTickedAfterRetain ==
    (AllProjectilesProcessed \/ pc = "particles" \/ (pc = "idle" /\ started)) =>
        \A i \in DOMAIN projectiles : projectiles[i].linear_velocity # <<0, 0>>

\* C16: each Game::tick runs in strict order: the turret's fire decision,
\* then every projectile's complete tick in pool order, then the pruning of
\* enemies, then the pruning of particles; no enemy or particle is ticked or
\* removed until all projectiles have been processed, and a projectile fired
\* in a frame is ticked in that same frame.
C16_FrameOrder == [][InFrameOrder]_vars /\ []AllTickedAfterRetain

\* projectiles.retain is through and the projectile it ticked last is the
\* one the turret fired in this frame, behind the one placed at the start
C16_Witness ==
    /\ AllProjectilesProcessed
    /\ Len(projectiles) >= 2
    /\ last # <<>>
    /\ last[1].before.linear_velocity = <<0, 0>>
    /\ last[1].before.position \in {ShootPosition(turret, mouse) : mouse \in MouseSet}
    /\ last[1].after.linear_velocity # <<0, 0>>

\* C17: in Enemy::explode every stamping rectangle contains the seed pixel
\* and lies within the image: 0 <= min <= max < size on each axis, with no
\* unsigned underflow in min = position - rectangle_offset, for every seed
\* position, rectangle size and random offset.
C17_StampContainsSeed ==
    call.op = "stamp" =>
        LET min == call.position - call.rectangle_offset
            max == min + call.rectangle_size - 1
        IN /\ 0 <= min
           /\ min <= call.position /\ call.position <= max
           /\ max < call.size

\* the pixels of group id
GroupPixels(id) == {px \in DOMAIN group_ids : group_ids[px] = id}

\* the while loop of the segmentation has been left
Segmented == explode_pc \in {"fill", "pack", "done"}

\* C18: the segmentation loop terminates for every texture: the count of
\* ungrouped pixels reaches 0 after finitely many seed draws, every seed
\* draw assigning at least one pixel (every group id the loop is through
\* with has a pixel), and on exit every opaque pixel has a group id.
C18_EverySeedDrawAssigns ==
    /\ \A id \in 1..(next_group_id - 1) : GroupPixels(id) # {}
    /\ Segmented => \A px \in texture.opaque : group_ids[px] # 0

\* the group ids that have pixels
UsedGroupIds == {group_ids[px] : px \in DOMAIN group_ids} \ {0}

\* the smallest box that holds the pixels
TightBox(pixels) ==
    LET xs == {px[1] : px \in pixels}
        ys == {px[2] : px \in pixels}
        Least(set) == CHOOSE n \in set : \A k \in set : n <= k
        Greatest(set) == CHOOSE n \in set : \A k \in set : n >= k
    IN BoundingBox(<<Least(xs), Least(ys)>>, <<Greatest(xs), Greatest(ys)>>)

\* two pixels of one group that share an edge
Adjacent(p, q) ==
    /\ group_ids[p] = group_ids[q]
    /\ Abs(p[1] - q[1]) + Abs(p[2] - q[2]) = 1

RECURSIVE Joined(_, _)
\* the pixels joined to those given through chains of adjacent pixels;
\* reached are those found so far, edge the ones found last
Joined(reached, edge) ==
    LET found == {q \in DOMAIN group_ids \ reached : \E p \in edge : Adjacent(p, q)}
    IN IF found = {} THEN reached ELSE Joined(reached \cup found, found)

RECURSIVE Parts(_)
\* the connected parts the pixels fall into
Parts(pixels) ==
    IF pixels = {} THEN {}
    ELSE LET px == CHOOSE q \in pixels : TRUE
             part == Joined({px}, {px})
         IN {part} \cup Parts(pixels \ part)

\* the connected parts of the groups
Components == Parts({px \in DOMAIN group_ids : group_ids[px] # 0})

\* C19 as claimed: for each pixel group (the pixels sharing one group id)
\* explode emits exactly one fragment, whose sub-rectangle is the tight
\* bounding box of the group's pixels; there are as many fragments as
\* groups, however many atlases there are.
C19_FragmentPerGroup ==
    explode_pc = "done" =>
        /\ Len(fragments) = Cardinality(UsedGroupIds)
        /\ \A id \in UsedGroupIds :
              Cardinality({i \in DOMAIN fragments :
                  FragmentBox(fragments[i]) = TightBox(GroupPixels(id))}) = 1

\* C19 as amended: for each connected part of a pixel group explode emits
\* exactly one fragment, which carries the pixels of that part and whose
\* sub-rectangle is their tight bounding box; there are as many fragments
\* as connected parts, however many atlases there are.
C19_FragmentPerComponent ==
    explode_pc = "done" =>
        \E parts \in {Components} :
           /\ Len(fragments) = Cardinality(parts)
           /\ \A part \in parts :
                 /\ Cardinality({i \in DOMAIN fragments : Carried(fragments[i]) = part}) = 1
                 /\ \A i \in DOMAIN fragments :
                       Carried(fragments[i]) = part =>
                           FragmentBox(fragments[i]) = TightBox(part)

\* explode is done with a group that falls into several connected parts,
\* and with more than one atlas
C19_Witness ==
    /\ explode_pc = "done"
    /\ Len(atlases) >= 2
    /\ Len(fragments) > Cardinality(UsedGroupIds)
    /\ Len(fragments) = Cardinality(Components)

\* the projectile moved on along its own axis by distance
MovedAlong(p, distance) ==
    [p EXCEPT !.position = IsoMul(p.position, Isometry(<<distance, 0>>, 0))]

Length(p) == distance_to_front(p.properties) + distance_to_back(p.properties)

\* C20 as claimed: the hitbox that prunes colliding is a superset of the
\* exact hitbox (an enemy that overlaps the exact hitbox passes the test
\* that prunes colliding), and after every Projectile::tick every id in
\* intersecting is also in colliding.
C20_IntersectingWithinColliding ==
    \A tick \in Ticks :
        /\ \A key \in DOMAIN enemies :
              ObjectIsColliding(tick.after, enemies[key]) =>
                  ShapeIsColliding(tick.after.shape, enemies[key].shape,
                                   WidenedOffset(tick.after, enemies[key]))
        /\ \A i \in DOMAIN tick.after.enemies_intersecting :
              Contains(tick.after.enemies_colliding, tick.after.enemies_intersecting[i])

\* C20 as amended: the hitbox that prunes colliding is the exact hitbox
\* moved forward by the projectile's length.  After every Projectile::tick
\* every id in intersecting is a live enemy that overlaps the exact hitbox
\* and every id in colliding is a live enemy that overlaps the moved one.
C20_ListsFollowTheirHitbox ==
    \A tick \in Ticks :
        /\ \A i \in DOMAIN tick.after.enemies_intersecting :
              \E key \in {tick.after.enemies_intersecting[i]} :
                 /\ key \in DOMAIN enemies
                 /\ enemies[key].health > 0
                 /\ ObjectIsColliding(tick.after, enemies[key])
        /\ \A i \in DOMAIN tick.after.enemies_colliding :
              \E key \in {tick.after.enemies_colliding[i]} :
                 /\ key \in DOMAIN enemies
                 /\ enemies[key].health > 0
                 /\ ObjectIsColliding(MovedAlong(tick.after, Length(tick.after)),
                                      enemies[key])

\* a tick leaves an enemy in intersecting that it has pruned from colliding,
\* and another tick leaves an enemy in colliding
C20_Witness ==
    \E tick \in Ticks :
        /\ \E i \in DOMAIN tick.after.enemies_intersecting :
              ~Contains(tick.after.enemies_colliding, tick.after.enemies_intersecting[i])
        /\ \E q \in DOMAIN projectiles : projectiles[q].enemies_colliding # <<>>

\* the projectile with its rectangle extended backward, along its own axis,
\* by distance (the rear edge moves back, the front edge stays)
ExtendedBackward(p, distance) ==
    [p EXCEPT !.shape = Rectangle(<<p.shape.half_size[1] + distance \div 2,
                                     p.shape.half_size[2]>>),
              !.position = IsoMul(p.position, Isometry(<<-(distance \div 2), 0>>, 0))]

\* the ids of a list
Ids(seq) == {seq[i] : i \in DOMAIN seq}

\* key names an enemy of the pool that is alive
Alive(key) == key \in DOMAIN enemies /\ enemies[key].health > 0

\* C21 as claimed: after every Projectile::tick that is not skipped, every
\* id in colliding and every id in intersecting names an enemy that is in
\* the pool with health > 0 and that overlaps the widened hitbox (colliding:
\* the exact hitbox extended backward by front+back) or the exact hitbox
\* (intersecting) where the projectile now is.
C21_ListsPrunedWidened ==
    \A tick \in Ticks :
        /\ \A key \in Ids(tick.after.enemies_intersecting) :
              Alive(key) /\ ObjectIsColliding(tick.after, enemies[key])
        /\ \A key \in Ids(tick.after.enemies_colliding) :
              /\ Alive(key)
              /\ ObjectIsColliding(ExtendedBackward(tick.after, Length(tick.after)),
                                   enemies[key])

\* the ids a tick can leave in a contact list: those the list held and
\* those the tick struck
Candidates(tick, held) == Ids(held) \cup tick.struck

\* C21 as amended: after every Projectile::tick that is not skipped,
\* intersecting holds exactly the ids it held or the tick struck that name
\* an enemy in the pool with health > 0 overlapping the exact hitbox, and
\* colliding exactly those overlapping the exact hitbox moved forward by
\* the projectile's length; every other id is pruned.
C21_ListsPruned ==
    \A tick \in Ticks :
        /\ Ids(tick.after.enemies_intersecting) =
              {key \in Candidates(tick, tick.before.enemies_intersecting) :
                  Alive(key) /\ ObjectIsColliding(tick.after, enemies[key])}
        /\ Ids(tick.after.enemies_colliding) =
              {key \in Candidates(tick, tick.before.enemies_colliding) :
                  /\ Alive(key)
                  /\ ObjectIsColliding(MovedAlong(tick.after, Length(tick.after)),
                                       enemies[key])}

\* a tick prunes from intersecting an enemy that has got ahead of the
\* projectile and keeps it in colliding
C21_Witness ==
    \E tick \in Ticks :
        /\ Ids(tick.before.enemies_intersecting) \ Ids(tick.after.enemies_intersecting) # {}
        /\ Ids(tick.before.enemies_colliding) \cap Ids(tick.after.enemies_colliding) # {}

\* v brought into low..high
Clamp(v, low, high) == Max(low, Min(v, high))

\* the square of the distance from the point at to the nearest point of the
\* rectangle, which is at clamped to the rectangle on each axis
ClosestPointDistanceSquared(half_size, at) ==
    MagnitudeSquared(VSub(at, <<Clamp(at[1], -half_size[1], half_size[1]),
                                 Clamp(at[2], -half_size[2], half_size[2])>>))

\* C22: is_colliding(Rectangle, Circle) agrees with a closest-point
\* reference (the distance from the circle's centre to the nearest point of
\* the rectangle compared with the radius) under one boundary convention,
\* touching either never or always counted, for every offset, those in the
\* corner region and on the branch boundaries included.
C22_AgreesWithClosestPoint ==
    call.op = "sweep" =>
        \/ \A at \in SweepOffsets :
              call.results[at] = (ClosestPointDistanceSquared(call.half_size, at)
                                     < call.radius * call.radius)
        \/ \A at \in SweepOffsets :
              call.results[at] = (ClosestPointDistanceSquared(call.half_size, at)
                                     <= call.radius * call.radius)

\* the pixels of the atlas image inside the sub-rectangle of a member
SubRectangle(a, i) ==
    BoxPixels(atlases[a].texture_bounding_boxes[i].bounding_box) \cap atlases[a].image

\* C23: within any single atlas built by Enemy::explode the bounding boxes
\* of its member fragments are pairwise non-intersecting, so each fragment's
\* sub-rectangle of the atlas holds only pixels of its own group: pixels
\* that carry the fragment's key, all of one group id.
C23_AtlasMembersApart ==
    \A a \in DOMAIN atlases :
       \A i \in DOMAIN atlases[a].texture_bounding_boxes :
          /\ \A j \in DOMAIN atlases[a].texture_bounding_boxes : i # j =>
                BoxPixels(atlases[a].texture_bounding_boxes[i].bounding_box)
                   \cap BoxPixels(atlases[a].texture_bounding_boxes[j].bounding_box) = {}
          /\ \A px \in SubRectangle(a, i) :
                group_keys[px] = atlases[a].texture_bounding_boxes[i].key
          /\ \A px, q \in SubRectangle(a, i) : group_ids[px] = group_ids[q]

\* an atlas of several members, one of them with a pixel of another
\* fragment inside its bounding box, left out of its sub-rectangle
C23_Witness ==
    /\ explode_pc = "done"
    /\ \E a \in DOMAIN atlases :
          /\ Len(atlases[a].texture_bounding_boxes) >= 2
          /\ \E i \in DOMAIN atlases[a].texture_bounding_boxes :
                \E px \in BoxPixels(atlases[a].texture_bounding_boxes[i].bounding_box) :
                   /\ px \in texture.opaque
                   /\ px \notin atlases[a].image

\* the ids of the two contact lists of a projectile
Contacts(p) == Ids(p.enemies_colliding) \cup Ids(p.enemies_intersecting)

\* C24: in every reachable state of a projectile every enemy id in
\* colliding and every enemy id in intersecting also occurs in hit: an id
\* enters the contact lists only in the tick that strikes it and records it
\* in hit, and hit never loses an entry.
C24_ContactsWithinHit ==
    /\ \A p \in AllProjectiles : Contacts(p) \subseteq Ids(p.enemies_hit)
    /\ \A i \in DOMAIN last :
          /\ Contacts(last[i].after) \ Contacts(last[i].before) \subseteq last[i].struck
          /\ last[i].struck \subseteq Ids(last[i].after.enemies_hit)
          /\ IsSubsequenceOf(last[i].before.enemies_hit, last[i].after.enemies_hit)
          /\ Len(last[i].after.enemies_hit)
                = Len(last[i].before.enemies_hit) + Cardinality(last[i].struck)

\* a projectile that has a hit on record strikes a further enemy, which
\* survives and enters the contact lists
C24_Witness ==
    \E tick \in Ticks :
        /\ tick.before.enemies_hit # <<>>
        /\ tick.struck \cap Contacts(tick.after) # {}
        /\ Ids(tick.before.enemies_hit) \ Contacts(tick.after) # {}

\* a step of Turret::tick: at most one projectile is inserted, and one is
\* inserted only when input.shoot is set and time_since_shoot, dt added, has
\* reached shoot_cooldown; the shot leaves time_since_shoot at 0 and
\* input.shoot cleared.  No other step inserts a projectile once the frames
\* have started.
OneShotPerTick ==
    /\ started' => Len(projectiles') <= Len(projectiles) + 1
    /\ TurretFires =>
          /\ pc = "idle" /\ pc' = "projectiles"
          /\ Len(projectiles') = Len(projectiles) + 1
          /\ SubSeq(projectiles', 1, Len(projectiles)) = projectiles
          /\ turret.input.shoot
          /\ turret.time_since_shoot + frame_dt'
                >= turret.projectile_kind.shoot_cooldown
          /\ turret'.time_since_shoot = 0
          /\ ~turret'.input.shoot
          /\ shot_log.pressed

\* the shots so far: the first comes no sooner than shoot_cooldown after the
\* start and each later one no sooner than shoot_cooldown after the one
\* before it
ShotsApart ==
    \A i \in DOMAIN shot_log.at :
        shot_log.at[i] - (IF i = 1 THEN 0 ELSE shot_log.at[i - 1])
            >= turret.projectile_kind.shoot_cooldown

\* C25: Turret::tick inserts at most one projectile per call, and only when
\* input.shoot is set and time_since_shoot >= shoot_cooldown; a shot resets
\* time_since_shoot to 0 and clears input.shoot, so any two consecutive
\* shots are at least shoot_cooldown of accumulated dt apart and every shot
\* has a sampling of the pressed button of its own.
C25_ShotsRationed == [][OneShotPerTick]_vars /\ []ShotsApart

\* the turret has just fired for the second time
C25_Witness ==
    /\ Len(shot_log.at) = 2
    /\ pc = "projectiles" /\ cursor = 1
    /\ turret.time_since_shoot = 0
    /\ shot_log.at[2] = clock

\* C26: once Projectile::should_delete() is true it stays true, and a
\* further Projectile::tick on that projectile returns at once: the
\* position, the contact collections, every enemy's health and the
\* particle pool are as they were.
C26_DeletedStaysInert ==
    (call.op = "tick" /\ ProjectileShouldDelete(call.before)) =>
        /\ ProjectileShouldDelete(call.after)
        /\ call.after.position = call.before.position
        /\ call.after.enemies_colliding = call.before.enemies_colliding
        /\ call.after.enemies_intersecting = call.before.enemies_intersecting
        /\ call.after.enemies_hit = call.before.enemies_hit
        /\ DOMAIN call.pool_after = DOMAIN call.pool_before
        /\ \A key \in DOMAIN call.pool_before :
              call.pool_after[key].health = call.pool_before[key].health
        /\ call.particles = <<>>

\* a projectile that struck an enemy and should be deleted is ticked again
\* over a frame of time, the enemy it struck still in the pool
C26_Witness ==
    /\ call.op = "tick"
    /\ ProjectileShouldDelete(call.before)
    /\ call.dt = 1
    /\ call.ticks >= 3
    /\ \E key \in DOMAIN call.pool_before :
          /\ Contains(call.before.enemies_hit, key)
          /\ call.pool_before[key].health > 0

====
